---- MODULE Spec2Model ----
(***************************************************************************)
(* Model of src/app.py: the monetary normalizer limpiar_valor_monetario,   *)
(* the field extractor extraer_datos_pdf, the per-document driver          *)
(* procesar_pdf and the batch loop over uploaded_files.                    *)
(*                                                                         *)
(* Strings are sequences of one-character strings.  A document text is a   *)
(* sequence of lexical tokens: the literal markers the patterns look for,  *)
(* date-time lexemes, numeral lexemes (an optional "$" followed by digits  *)
(* and commas) and other words.  Whitespace between tokens, the "\n" that  *)
(* procesar_pdf appends to each page included, is what every pattern's \s* *)
(* absorbs, so it is not a token.                                          *)
(***************************************************************************)
EXTENDS Integers, Sequences, FiniteSets, TLC

VARIABLES
    valor,            \* limpiar_valor_monetario: the argument
    limpio,           \* limpiar_valor_monetario: the returned string, or Pendiente
    contenido_texto,  \* extraer_datos_pdf: the argument
    registro,         \* extraer_datos_pdf: its outcome, or SinRegistro
    uploaded_files,   \* the batch: the uploaded documents, in upload order
    idx,              \* batch loop: index of the current document (1-based)
    pc,               \* batch loop / procesar_pdf: position in the code
    pagina,           \* procesar_pdf: index of the next page to read
    texto_completo,   \* procesar_pdf: the text accumulated so far
    abiertos,         \* indices of the documents whose PDF handle is open
    aperturas,        \* indices of the documents whose handle was ever opened, in order
    datos,            \* batch loop: what procesar_pdf returned for the current document
    resultados,       \* batch loop: the records of the processed documents
    errores,          \* batch loop: the names of the failed documents
    avisos            \* the st.error reports, in order

vars == <<valor, limpio, contenido_texto, registro, uploaded_files, idx, pc,
          pagina, texto_completo, abiertos, aperturas, datos, resultados,
          errores, avisos>>

----------------------------------------------------------------------------
(* Bounds *)

MaxValor == 5        \* longest argument of limpiar_valor_monetario
MaxFragmentos == 3   \* most fragments in a text given to extraer_datos_pdf
MaxArchivos == 3     \* most documents in a batch

----------------------------------------------------------------------------
(* Python values *)

None == <<"None">>            \* Python's None (no string holds this element)
Pendiente == <<"pendiente">>  \* the call has not returned yet
NoneDict == [none |-> TRUE]   \* None where a dict is expected
SinRegistro == [pendiente |-> TRUE]

Digitos == {"0", "1", "2", "3", "4", "5", "6", "7", "8", "9"}
Blancos == {" "}

DigitVal(c) ==
    CASE c = "0" -> 0 [] c = "1" -> 1 [] c = "2" -> 2 [] c = "3" -> 3
      [] c = "4" -> 4 [] c = "5" -> 5 [] c = "6" -> 6 [] c = "7" -> 7
      [] c = "8" -> 8 [] c = "9" -> 9

\* str.replace(ch, ''): every occurrence of ch is removed
Replace(s, ch) == SelectSeq(s, LAMBDA c : c # ch)

RECURSIVE LStrip(_)
LStrip(s) == IF s # <<>> /\ Head(s) \in Blancos THEN LStrip(Tail(s)) ELSE s

RECURSIVE RStrip(_)
RStrip(s) ==
    IF s # <<>> /\ s[Len(s)] \in Blancos THEN RStrip(SubSeq(s, 1, Len(s) - 1)) ELSE s

\* str.strip(): leading and trailing whitespace removed
Strip(s) == RStrip(LStrip(s))

\* int(s) raises ValueError unless s (surrounding whitespace aside) is a
\* nonempty string of digits
IntFails(s) == LET t == Strip(s) IN t = <<>> \/ \E i \in 1..Len(t) : t[i] \notin Digitos

RECURSIVE IntOf(_)
IntOf(s) ==
    LET t == Strip(s)
    IN IF t = <<>> THEN 0 ELSE 10 * IntOf(SubSeq(t, 1, Len(t) - 1)) + DigitVal(t[Len(t)])

----------------------------------------------------------------------------
(* limpiar_valor_monetario *)

\* the normalizer without the final strip()
limpiar_sin_strip(v) ==
    IF v # None /\ v # <<>> THEN Replace(Replace(v, "$"), ",") ELSE <<"0">>

limpiar_valor_monetario(v) ==
    IF v # None /\ v # <<>>
    THEN Strip(Replace(Replace(v, "$"), ","))
    ELSE <<"0">>

----------------------------------------------------------------------------
(* Document text: tokens *)

Marcadores == {"A", "C", "DATOS", "VBRUTA", "TOTAL", "EFECTIVO", "DATAFONO",
               "VALVENTAS", "EGRESOS", "DIFERENCIA"}

\* an occurrence of a literal marker: "A:", "C:", "DATOS DE FACTURAS",
\* "V. Bruta :", "Total :", "Medio : EFECTIVO", "Medio : DATAFONO",
\* "Val. Ventas :", "DETALLE DE EGRESOS", "Diferencia:"
Marca(k) == [k |-> k, v |-> <<>>]
\* a lexeme \d{2}/\d{2}/\d{4}\s+\d{2}:\d{2}:\d{2}\s+[AP]M, kept whole
Fecha(f) == [k |-> "FECHA", v |-> <<f>>]
\* a lexeme \$?[\d,]+
Num(lex) == [k |-> "NUM", v |-> lex]
\* any other word
Otro == [k |-> "OTRO", v |-> <<>>]

\* the date-time lexemes of the texts
f1 == "01/02/2024 08:00:00 AM"
f2 == "03/04/2024 09:10:11 PM"

\* the digits a date-time lexeme starts with
DiaDe(f) == IF f = f1 THEN <<"0", "1">> ELSE <<"0", "3">>

\* \$?([\d,]+) matches at a numeral lexeme and at the head of a date-time lexeme
EsNumeral(tok) == tok.k \in {"NUM", "FECHA"}

\* the group ([\d,]+): the "$" of a numeral lexeme stays outside the group; of a
\* date-time lexeme the group takes the digits before the first "/"
Captura(tok) ==
    IF tok.k = "FECHA" THEN DiaDe(tok.v[1])
    ELSE IF Head(tok.v) = "$" THEN Tail(tok.v) ELSE tok.v

Min(S) == CHOOSE x \in S : \A y \in S : x <= y

SinMatch == [ok |-> FALSE, g1 |-> <<>>, g2 |-> <<>>]

\* re.search of  <marker>\s*(<date-time>) : the leftmost marker directly
\* followed by a date-time lexeme
buscar_fecha(t, k) ==
    LET S == {i \in 1..(Len(t) - 1) : t[i].k = k /\ t[i + 1].k = "FECHA"}
    IN IF S = {} THEN SinMatch
       ELSE [ok |-> TRUE, g1 |-> t[Min(S) + 1].v[1], g2 |-> <<>>]

\* positions where  <marker>\s*\$?([\d,]+)  matches
ConNumeral(t, k) == {i \in 1..(Len(t) - 1) : t[i].k = k /\ EsNumeral(t[i + 1])}

\* re.search of  <marker>\s*\$?([\d,]+)
buscar_directo(t, k) ==
    LET S == ConNumeral(t, k)
    IN IF S = {} THEN SinMatch
       ELSE [ok |-> TRUE, g1 |-> Captura(t[Min(S) + 1]), g2 |-> <<>>]

\* re.search of  <header>[\s\S]*?<marker>\s*\$?([\d,]+) : the leftmost header
\* from which a match exists; the lazy span stops at the first marker with a
\* numeral after it
buscar_seccion(t, cab, k) ==
    LET H == {h \in 1..Len(t) : t[h].k = cab /\ \E i \in ConNumeral(t, k) : i > h}
    IN IF H = {} THEN SinMatch
       ELSE LET h == Min(H)
                i == Min({x \in ConNumeral(t, k) : x > h})
            IN [ok |-> TRUE, g1 |-> Captura(t[i + 1]), g2 |-> <<>>]

\* re.search of patron_seccion_facturas: header, lazy span, "V. Bruta :" with
\* its numeral, lazy span, "Total :" with its numeral
buscar_facturas(t) ==
    LET M == {m \in (1..Len(t)) \X ConNumeral(t, "VBRUTA") \X ConNumeral(t, "TOTAL") :
                 t[m[1]].k = "DATOS" /\ m[1] < m[2] /\ m[2] + 2 <= m[3]}
    IN IF M = {} THEN SinMatch
       ELSE LET h == Min({m[1] : m \in M})
                i == Min({m[2] : m \in {x \in M : x[1] = h}})
                j == Min({m[3] : m \in {x \in M : x[1] = h /\ x[2] = i}})
            IN [ok |-> TRUE, g1 |-> Captura(t[i + 1]), g2 |-> Captura(t[j + 1])]

----------------------------------------------------------------------------
(* extraer_datos_pdf *)

Campos == {"Apertura", "Cierre", "V_Bruta", "Total", "Efectivo", "Datafono",
           "Total_Egresos", "Diferencia"}

datos_iniciales ==
    [Apertura |-> <<>>, Cierre |-> <<>>, V_Bruta |-> 0, Total |-> 0, Efectivo |-> 0,
     Datafono |-> 0, Total_Egresos |-> 0, Diferencia |-> 0]

\* the state of the try block: the record so far and the exception raised
\* inside it ("" while none)
Inicio == [datos |-> datos_iniciales, exc |-> ""]

\* datos[campo] = int(limpiar_valor_monetario(cap))
convertir(e, campo, cap) ==
    IF e.exc # "" THEN e
    ELSE IF IntFails(limpiar_valor_monetario(cap)) THEN [e EXCEPT !.exc = "ValueError"]
    ELSE [e EXCEPT !.datos[campo] = IntOf(limpiar_valor_monetario(cap))]

paso_apertura(e, t) ==
    LET m == buscar_fecha(t, "A")
    IN IF e.exc # "" \/ ~m.ok THEN e ELSE [e EXCEPT !.datos.Apertura = <<m.g1>>]

paso_cierre(e, t) ==
    LET m == buscar_fecha(t, "C")
    IN IF e.exc # "" \/ ~m.ok THEN e ELSE [e EXCEPT !.datos.Cierre = <<m.g1>>]

paso_facturas(e, t) ==
    LET m == buscar_facturas(t)
    IN IF e.exc # "" \/ ~m.ok THEN e
       ELSE convertir(convertir(e, "V_Bruta", m.g1), "Total", m.g2)

paso_efectivo(e, t) ==
    LET m == buscar_seccion(t, "EFECTIVO", "VALVENTAS")
    IN IF e.exc # "" \/ ~m.ok THEN e ELSE convertir(e, "Efectivo", m.g1)

paso_datafono(e, t) ==
    LET m == buscar_seccion(t, "DATAFONO", "VALVENTAS")
    IN IF e.exc # "" \/ ~m.ok THEN e ELSE convertir(e, "Datafono", m.g1)

paso_egresos(e, t) ==
    LET m == buscar_seccion(t, "EGRESOS", "TOTAL")
    IN IF e.exc # "" \/ ~m.ok THEN e ELSE convertir(e, "Total_Egresos", m.g1)

paso_diferencia(e, t) ==
    LET m == buscar_directo(t, "DIFERENCIA")
    IN IF e.exc # "" \/ ~m.ok THEN e ELSE convertir(e, "Diferencia", m.g1)

\* the try block, field after field
bloque_try(t) ==
    paso_diferencia(paso_egresos(paso_datafono(paso_efectivo(
        paso_facturas(paso_cierre(paso_apertura(Inicio, t), t), t), t), t), t), t)

\* "except Exception" catches every exception the block can raise
EsException(x) == x \in {"ValueError", "TypeError", "PDFSyntaxError"}

\* a handler that gives up the record, as procesar_pdf's does
extraer_devuelve_none(t) ==
    LET e == bloque_try(t)
    IN [ret |-> IF e.exc = "" THEN e.datos ELSE NoneDict,
        aviso |-> e.exc # "" /\ EsException(e.exc),
        lanza |-> e.exc # "" /\ ~EsException(e.exc)]

\* a handler that starts the record over
extraer_descarta(t) ==
    LET e == bloque_try(t)
    IN [ret |-> IF e.exc = "" THEN e.datos ELSE datos_iniciales,
        aviso |-> e.exc # "" /\ EsException(e.exc),
        lanza |-> e.exc # "" /\ ~EsException(e.exc)]

\* the outcome of the call: the value returned, whether st.error reported an
\* error, whether an exception left the function
extraer_datos_pdf(t) ==
    LET e == bloque_try(t)
    IN [ret |-> e.datos,
        aviso |-> e.exc # "" /\ EsException(e.exc),
        lanza |-> e.exc # "" /\ ~EsException(e.exc)]

----------------------------------------------------------------------------
(* Inputs *)

\* the characters an argument of limpiar_valor_monetario is made of
Caracteres == {"$", ",", " ", "1", "2"}

Valores(max) == {None} \cup UNION {[1..n -> Caracteres] : n \in 0..max}

\* the numeral lexemes of the texts: "$1,2" and the comma-only ","
Numerales == {<<"$", "1", ",", "2">>, <<",">>}

ConValor == {"VBRUTA", "TOTAL", "VALVENTAS", "DIFERENCIA"}

\* the pieces a text is made of: a marker alone, a marker with its value, a
\* date-time alone, another word, the opening of a section up to its first value
Fragmentos ==
    {<<Marca("A"), Fecha(f1)>>, <<Marca("C"), Fecha(f2)>>, <<Fecha(f1)>>, <<Otro>>}
    \cup {<<Marca(k)>> : k \in Marcadores \ {"A", "C"}}
    \cup {<<Marca(k), Num(n)>> : k \in ConValor, n \in Numerales}
    \cup {<<Marca("EFECTIVO"), Marca("VALVENTAS"), Num(n)>> : n \in Numerales}
    \cup {<<Marca("DATOS"), Marca("VBRUTA"), Num(n)>> : n \in Numerales}

RECURSIVE Concat(_)
Concat(ss) == IF ss = <<>> THEN <<>> ELSE Head(ss) \o Concat(Tail(ss))

Textos(max) == {Concat(fs) : fs \in UNION {[1..n -> Fragmentos] : n \in 0..max}}

----------------------------------------------------------------------------
(* Specification of the normalizer alone *)

EnReposo ==
    /\ uploaded_files = <<>>
    /\ idx = 0
    /\ pc = "reposo"
    /\ pagina = 0
    /\ texto_completo = <<>>
    /\ abiertos = {}
    /\ aperturas = <<>>
    /\ datos = NoneDict
    /\ resultados = <<>>
    /\ errores = <<>>
    /\ avisos = <<>>

varsLote == <<uploaded_files, idx, pc, pagina, texto_completo, abiertos, aperturas,
              datos, resultados, errores, avisos>>

InitLimpiar ==
    /\ valor \in Valores(MaxValor)
    /\ limpio = Pendiente
    /\ contenido_texto = <<>>
    /\ registro = SinRegistro
    /\ EnReposo

Limpiar ==
    /\ limpio = Pendiente
    /\ limpio' = limpiar_valor_monetario(valor)
    /\ UNCHANGED <<valor, contenido_texto, registro, varsLote>>

SpecLimpiar == InitLimpiar /\ [][Limpiar]_vars

----------------------------------------------------------------------------
(* Specification of the extractor alone *)

InitExtraer ==
    /\ valor = None
    /\ limpio = Pendiente
    /\ contenido_texto \in Textos(MaxFragmentos)
    /\ registro = SinRegistro
    /\ EnReposo

Extraer ==
    /\ registro = SinRegistro
    /\ registro' = extraer_datos_pdf(contenido_texto)
    /\ UNCHANGED <<valor, limpio, contenido_texto, varsLote>>

SpecExtraer == InitExtraer /\ [][Extraer]_vars

----------------------------------------------------------------------------
(* procesar_pdf and the batch loop *)

\* a page: the text extract_text() returns, or none when it returns None
Pagina(t) == [none |-> FALSE, texto |-> t]
PaginaSinTexto == [none |-> TRUE, texto |-> <<>>]

TextoBueno == <<Marca("A"), Fecha(f1), Marca("DATOS"), Marca("VBRUTA"),
                Num(<<"$", "1", ",", "2">>), Marca("TOTAL"), Num(<<"3">>)>>
TextoMalo == <<Marca("C"), Fecha(f2), Marca("EFECTIVO"), Marca("VALVENTAS"),
               Num(<<",">>), Marca("DIFERENCIA"), Num(<<"3">>)>>

\* the kinds of document: one pdfplumber.open rejects, one without pages, one
\* good page, a page whose numeral does not convert, a page without text
\* after a good one, a value split over two pages
Contenidos ==
    {[abre |-> FALSE, paginas |-> <<>>],
     [abre |-> TRUE, paginas |-> <<>>],
     [abre |-> TRUE, paginas |-> <<Pagina(TextoBueno)>>],
     [abre |-> TRUE, paginas |-> <<Pagina(TextoMalo)>>],
     [abre |-> TRUE, paginas |-> <<Pagina(TextoBueno), PaginaSinTexto>>],
     [abre |-> TRUE, paginas |-> <<Pagina(<<Marca("DIFERENCIA")>>), Pagina(<<Num(<<"3">>)>>)>>]}

Nombres == {"a.pdf", "b.pdf"}

Archivos == {[name |-> n, abre |-> c.abre, paginas |-> c.paginas] :
                n \in Nombres, c \in Contenidos}

\* "if uploaded_files:" lets only a non-empty batch through
Lotes(max) == UNION {[1..n -> Archivos] : n \in 1..max}

uploaded_file == uploaded_files[idx]

\* truth value of what procesar_pdf returned: None and {} are false
Verdadero(d) == d # NoneDict /\ DOMAIN d # {}

\* datos['Archivo'] = uploaded_file.name
ConArchivo(d, n) ==
    [f \in DOMAIN d \cup {"Archivo"} |-> IF f = "Archivo" THEN n ELSE d[f]]

InitLote ==
    /\ valor = None
    /\ limpio = Pendiente
    /\ contenido_texto = <<>>
    /\ registro = SinRegistro
    /\ uploaded_files \in Lotes(MaxArchivos)
    /\ idx = 0
    /\ pc = "for"
    /\ pagina = 0
    /\ texto_completo = <<>>
    /\ abiertos = {}
    /\ aperturas = <<>>
    /\ datos = NoneDict
    /\ resultados = <<>>
    /\ errores = <<>>
    /\ avisos = <<>>

varsPuros == <<valor, limpio, contenido_texto, registro>>

\* for idx, uploaded_file in enumerate(uploaded_files): the next document;
\* procesar_pdf is entered and texto_completo = ""
Siguiente ==
    /\ pc = "for"
    /\ idx < Len(uploaded_files)
    /\ idx' = idx + 1
    /\ texto_completo' = <<>>
    /\ pagina' = 0
    /\ pc' = "open"
    /\ UNCHANGED <<varsPuros, uploaded_files, abiertos, aperturas, datos, resultados,
                   errores, avisos>>

\* the loop is exhausted
Terminar ==
    /\ pc = "for"
    /\ idx = Len(uploaded_files)
    /\ pc' = "done"
    /\ UNCHANGED <<varsPuros, uploaded_files, idx, pagina, texto_completo, abiertos,
                   aperturas, datos, resultados, errores, avisos>>

\* with pdfplumber.open(archivo_pdf) as pdf: the handle is open
Abrir ==
    /\ pc = "open"
    /\ uploaded_file.abre
    /\ abiertos' = abiertos \cup {idx}
    /\ aperturas' = Append(aperturas, idx)
    /\ pagina' = 1
    /\ pc' = "pages"
    /\ UNCHANGED <<varsPuros, uploaded_files, idx, texto_completo, datos, resultados,
                   errores, avisos>>

\* pdfplumber.open raises: no handle; except Exception reports and returns None
AbrirFalla ==
    /\ pc = "open"
    /\ ~uploaded_file.abre
    /\ IF EsException("PDFSyntaxError")
       THEN /\ avisos' = Append(avisos, "Error al procesar PDF")
            /\ datos' = NoneDict
            /\ pc' = "if"
       ELSE /\ pc' = "roto"
            /\ UNCHANGED <<avisos, datos>>
    /\ UNCHANGED <<varsPuros, uploaded_files, idx, pagina, texto_completo, abiertos,
                   aperturas, resultados, errores>>

\* texto_completo += pagina.extract_text() + "\n"
LeerPagina ==
    /\ pc = "pages"
    /\ pagina <= Len(uploaded_file.paginas)
    /\ ~uploaded_file.paginas[pagina].none
    /\ texto_completo' = texto_completo \o uploaded_file.paginas[pagina].texto
    /\ pagina' = pagina + 1
    /\ UNCHANGED <<varsPuros, uploaded_files, idx, pc, abiertos, aperturas, datos,
                   resultados, errores, avisos>>

\* a page without text read as the empty string
LeerPaginaTolerante ==
    /\ pc = "pages"
    /\ pagina <= Len(uploaded_file.paginas)
    /\ uploaded_file.paginas[pagina].none
    /\ pagina' = pagina + 1
    /\ UNCHANGED <<varsPuros, uploaded_files, idx, pc, texto_completo, abiertos,
                   aperturas, datos, resultados, errores, avisos>>

\* the TypeError of a page without text handled with the handle left open
LeerPaginaSinCerrar ==
    /\ pc = "pages"
    /\ pagina <= Len(uploaded_file.paginas)
    /\ uploaded_file.paginas[pagina].none
    /\ avisos' = Append(avisos, "Error al procesar PDF")
    /\ datos' = NoneDict
    /\ pc' = "if"
    /\ UNCHANGED <<varsPuros, uploaded_files, idx, pagina, texto_completo, abiertos,
                   aperturas, resultados, errores>>

\* extract_text() returns None and None + "\n" raises TypeError: the with
\* block closes the handle, except Exception reports and returns None
LeerPaginaFalla ==
    /\ pc = "pages"
    /\ pagina <= Len(uploaded_file.paginas)
    /\ uploaded_file.paginas[pagina].none
    /\ abiertos' = abiertos \ {idx}
    /\ IF EsException("TypeError")
       THEN /\ avisos' = Append(avisos, "Error al procesar PDF")
            /\ datos' = NoneDict
            /\ pc' = "if"
       ELSE /\ pc' = "roto"
            /\ UNCHANGED <<avisos, datos>>
    /\ UNCHANGED <<varsPuros, uploaded_files, idx, pagina, texto_completo, aperturas,
                   resultados, errores>>

\* the pages are exhausted: the with block closes the handle
Cerrar ==
    /\ pc = "pages"
    /\ pagina > Len(uploaded_file.paginas)
    /\ abiertos' = abiertos \ {idx}
    /\ pc' = "extract"
    /\ UNCHANGED <<varsPuros, uploaded_files, idx, pagina, texto_completo, aperturas,
                   datos, resultados, errores, avisos>>

\* return extraer_datos_pdf(texto_completo)
ExtraerDatos ==
    /\ pc = "extract"
    /\ LET r == extraer_datos_pdf(texto_completo)
       IN /\ datos' = IF r.lanza THEN NoneDict ELSE r.ret
          /\ avisos' = avisos
                       \o (IF r.aviso THEN <<"Error al extraer datos">> ELSE <<>>)
                       \o (IF r.lanza THEN <<"Error al procesar PDF">> ELSE <<>>)
    /\ pc' = "if"
    /\ UNCHANGED <<varsPuros, uploaded_files, idx, pagina, texto_completo, abiertos,
                   aperturas, resultados, errores>>

\* if datos: datos['Archivo'] = uploaded_file.name; resultados.append(datos)
Agregar ==
    /\ pc = "if"
    /\ Verdadero(datos)
    /\ resultados' = Append(resultados, ConArchivo(datos, uploaded_file.name))
    /\ pc' = "for"
    /\ UNCHANGED <<varsPuros, uploaded_files, idx, pagina, texto_completo, abiertos,
                   aperturas, datos, errores, avisos>>

\* else: errores.append(uploaded_file.name)
AgregarError ==
    /\ pc = "if"
    /\ ~Verdadero(datos)
    /\ errores' = Append(errores, uploaded_file.name)
    /\ pc' = "for"
    /\ UNCHANGED <<varsPuros, uploaded_files, idx, pagina, texto_completo, abiertos,
                   aperturas, datos, resultados, avisos>>

Next ==
    \/ Siguiente
    \/ Terminar
    \/ Abrir
    \/ AbrirFalla
    \/ LeerPagina
    \/ LeerPaginaFalla
    \/ Cerrar
    \/ ExtraerDatos
    \/ Agregar
    \/ AgregarError

Spec == InitLote /\ [][Next]_vars

----------------------------------------------------------------------------
(* Claims about limpiar_valor_monetario *)

\* C4: limpiar_valor_monetario returns "0" whenever its argument is None, is
\* empty, or is left empty once "$", "," and the surrounding whitespace are
\* removed (it is made of "$", "," and whitespace only).
C4_VacioDaCero ==
    (/\ limpio # Pendiente
     /\ \/ valor = None
        \/ \A i \in 1..Len(valor) : valor[i] \in {"$", ","} \cup Blancos)
    => limpio = <<"0">>

\* a currency string: "$", then digits and commas with a digit among them,
\* whitespace around it allowed
EsMoneda(s) ==
    /\ s # None
    /\ \E a, b \in 1..Len(s) :
          /\ a < b
          /\ \A i \in 1..(a - 1) : s[i] \in Blancos
          /\ s[a] = "$"
          /\ \A i \in (a + 1)..b : s[i] \in Digitos \cup {","}
          /\ \E i \in (a + 1)..b : s[i] \in Digitos
          /\ \A i \in (b + 1)..Len(s) : s[i] \in Blancos

SoloDigitos(s) == SelectSeq(s, LAMBDA c : c \in Digitos)

\* C5: for a currency string (a leading "$", digits and commas, whitespace
\* around it) limpiar_valor_monetario returns exactly its digits, in order.
C5_MonedaDaDigitos ==
    (limpio # Pendiente /\ EsMoneda(valor)) => limpio = SoloDigitos(valor)

\* " $1,2" has been normalized to "12"
C5_Witness ==
    /\ valor = <<" ", "$", "1", ",", "2">>
    /\ limpio = <<"1", "2">>

----------------------------------------------------------------------------
(* Claims about extraer_datos_pdf *)

Hecho == registro # SinRegistro

\* the number a numeral denotes: its digits, read in order (0 without digits)
ValorNumeral(cap) == IntOf(SoloDigitos(cap))

Orden == <<"Apertura", "Cierre", "V_Bruta", "Total", "Efectivo", "Datafono",
           "Total_Egresos", "Diferencia">>

\* the match of a field's own pattern in the whole text, and its group
MatchDe(f, t) ==
    CASE f = "Apertura" -> buscar_fecha(t, "A")
      [] f = "Cierre" -> buscar_fecha(t, "C")
      [] f = "V_Bruta" -> buscar_facturas(t)
      [] f = "Total" -> [buscar_facturas(t) EXCEPT !.g1 = buscar_facturas(t).g2]
      [] f = "Efectivo" -> buscar_seccion(t, "EFECTIVO", "VALVENTAS")
      [] f = "Datafono" -> buscar_seccion(t, "DATAFONO", "VALVENTAS")
      [] f = "Total_Egresos" -> buscar_seccion(t, "EGRESOS", "TOTAL")
      [] f = "Diferencia" -> buscar_directo(t, "DIFERENCIA")

EsHora(f) == f \in {"Apertura", "Cierre"}

\* the value a field has when it is searched on its own
ValorSolo(f, t) ==
    LET m == MatchDe(f, t)
    IN IF ~m.ok THEN datos_iniciales[f]
       ELSE IF EsHora(f) THEN <<m.g1>> ELSE ValorNumeral(m.g1)

\* converting the field's captured numeral raises: no digit is left in it
Falla(f, t) ==
    LET m == MatchDe(f, t)
    IN ~EsHora(f) /\ m.ok /\ SoloDigitos(m.g1) = <<>>

Hay(t, k) == \E i \in 1..Len(t) : t[i].k = k

PrimeroDe(S) == CHOOSE x \in S : \A y \in S : x <= y

\* the first "V. Bruta :" with a numeral after the first header, and the first
\* "Total :" with a numeral after that numeral
PrimeraVBruta(t) ==
    PrimeroDe({i \in ConNumeral(t, "VBRUTA") :
                  i > PrimeroDe({h \in 1..Len(t) : t[h].k = "DATOS"})})

PrimerTotal(t) == PrimeroDe({j \in ConNumeral(t, "TOTAL") : j > PrimeraVBruta(t) + 1})

\* a header, then "V. Bruta : <numeral>", then "Total : <numeral>", then a
\* further "Total : <numeral>"
ConFacturas(t) ==
    \E h \in 1..Len(t), i \in ConNumeral(t, "VBRUTA"), j, j2 \in ConNumeral(t, "TOTAL") :
        t[h].k = "DATOS" /\ h < i /\ i + 1 < j /\ j + 1 < j2

\* C1: in a text where a "DATOS DE FACTURAS" header is followed by
\* "V. Bruta : <numeral>", then "Total : <numeral>", then further
\* "Total : <numeral>", V_Bruta is the number of the first "V. Bruta :" after
\* the header and Total the number of the first "Total :" after it.
C1_FacturasPrimeraOcurrencia ==
    (Hecho /\ ConFacturas(contenido_texto))
    => /\ registro.ret.V_Bruta =
              ValorNumeral(Captura(contenido_texto[PrimeraVBruta(contenido_texto) + 1]))
       /\ registro.ret.Total =
              ValorNumeral(Captura(contenido_texto[PrimerTotal(contenido_texto) + 1]))

Posiciones(t, k) == {i \in 1..Len(t) : t[i].k = k}

\* the first "Val. Ventas : <numeral>" of the section that marker k opens; the
\* section ends where the other "Medio :" section starts
ValVentasDe(t, k, otro) ==
    LET p == PrimeroDe(Posiciones(t, k))
        q == PrimeroDe(Posiciones(t, otro))
        fin == IF p < q THEN q - 1 ELSE Len(t)
    IN {i \in ConNumeral(t, "VALVENTAS") : p < i /\ i + 1 <= fin}

\* one "Medio : EFECTIVO" section and one "Medio : DATAFONO" section, each
\* with a "Val. Ventas : <numeral>" of its own
DosMedios(t) ==
    /\ Cardinality(Posiciones(t, "EFECTIVO")) = 1
    /\ Cardinality(Posiciones(t, "DATAFONO")) = 1
    /\ ValVentasDe(t, "EFECTIVO", "DATAFONO") # {}
    /\ ValVentasDe(t, "DATAFONO", "EFECTIVO") # {}

\* the text with its two "Medio :" sections swapped
Intercambiar(t) ==
    LET e == PrimeroDe(Posiciones(t, "EFECTIVO"))
        d == PrimeroDe(Posiciones(t, "DATAFONO"))
        a == IF e < d THEN e ELSE d
        b == IF e < d THEN d ELSE e
    IN SubSeq(t, 1, a - 1) \o SubSeq(t, b, Len(t)) \o SubSeq(t, a, b - 1)

\* C2: with an EFECTIVO section and a DATAFONO section, each with its own
\* "Val. Ventas : <numeral>", Efectivo is the number of the EFECTIVO section
\* and Datafono the number of the DATAFONO section, and both are the same for
\* the text with the two sections swapped.
C2_MediosPorEtiqueta ==
    (Hecho /\ DosMedios(contenido_texto))
    => LET t == contenido_texto
           ve == PrimeroDe(ValVentasDe(t, "EFECTIVO", "DATAFONO"))
           vd == PrimeroDe(ValVentasDe(t, "DATAFONO", "EFECTIVO"))
           otro == extraer_datos_pdf(Intercambiar(t)).ret
       IN /\ registro.ret.Efectivo = ValorNumeral(Captura(t[ve + 1]))
          /\ registro.ret.Datafono = ValorNumeral(Captura(t[vd + 1]))
          /\ otro.Efectivo = registro.ret.Efectivo
          /\ otro.Datafono = registro.ret.Datafono

\* the text holds no occurrence of a marker the field's pattern needs
SinMarcador(f, t) ==
    CASE f = "Apertura" -> ~Hay(t, "A")
      [] f = "Cierre" -> ~Hay(t, "C")
      [] f \in {"V_Bruta", "Total"} ->
            ~Hay(t, "DATOS") \/ ~Hay(t, "VBRUTA") \/ ~Hay(t, "TOTAL")
      [] f = "Efectivo" -> ~Hay(t, "EFECTIVO")
      [] f = "Datafono" -> ~Hay(t, "DATAFONO")
      [] f = "Total_Egresos" -> ~Hay(t, "EGRESOS")
      [] f = "Diferencia" -> ~Hay(t, "DIFERENCIA")

\* C3: a field whose marker the text does not hold has its default, and every
\* other field has the value its own search over the whole text gives.
C3_CamposIndependientes ==
    Hecho =>
        \A f \in Campos :
            SinMarcador(f, contenido_texto) =>
                /\ registro.ret[f] = datos_iniciales[f]
                /\ \A g \in Campos \ {f} :
                       registro.ret[g] = ValorSolo(g, contenido_texto)

Fallan(t) == {j \in 1..Len(Orden) : Falla(Orden[j], t)}

\* C8: when converting a captured numeral raises, extraer_datos_pdf raises
\* nothing, reports the error and returns the record in which the fields
\* before the failing one hold their extracted values and the failing field
\* and the fields after it hold their defaults.
C8_RegistroParcial ==
    (Hecho /\ Fallan(contenido_texto) # {})
    => LET k == PrimeroDe(Fallan(contenido_texto))
       IN /\ ~registro.lanza
          /\ registro.aviso
          /\ DOMAIN registro.ret = Campos
          /\ \A j \in 1..Len(Orden) :
                registro.ret[Orden[j]] =
                    IF j < k THEN ValorSolo(Orden[j], contenido_texto)
                    ELSE datos_iniciales[Orden[j]]

\* "A: <date>", an EFECTIVO section whose numeral is ",", "Diferencia: $1,2":
\* Apertura is kept, Diferencia is left at 0
C8_Witness ==
    /\ Hecho
    /\ registro.aviso
    /\ Falla("Efectivo", contenido_texto)
    /\ registro.ret.Apertura = <<f1>>
    /\ MatchDe("Diferencia", contenido_texto).ok
    /\ ValorSolo("Diferencia", contenido_texto) = 12
    /\ registro.ret.Diferencia = 0

Horas == {<<>>, <<f1>>, <<f2>>}

\* C9: every record extraer_datos_pdf returns holds the eight fields, the two
\* times strings and the six amounts non-negative integers.
C9_RegistroCompleto ==
    Hecho =>
        /\ DOMAIN registro.ret = Campos
        /\ \A f \in Campos :
              IF EsHora(f) THEN registro.ret[f] \in Horas ELSE registro.ret[f] \in Nat

\* the record returned on the caught-exception path, with a time and an amount
\* extracted before the failure
C9_Witness ==
    /\ Hecho
    /\ registro.aviso
    /\ registro.ret.Cierre = <<f2>>
    /\ registro.ret.V_Bruta = 12
    /\ registro.ret.Total = 0

----------------------------------------------------------------------------
(* Claims about the batch loop *)

\* the document's text cannot be obtained: it does not open, or one of its
\* pages yields no text
SinTexto(d) == ~d.abre \/ \E p \in 1..Len(d.paginas) : d.paginas[p].none

TextoDe(d) == Concat([p \in 1..Len(d.paginas) |-> d.paginas[p].texto])

NombresDe(ds) == [k \in 1..Len(ds) |-> ds[k].name]

\* the documents handled so far
Vistos == SubSeq(uploaded_files, 1, idx)

\* C6: of N documents of which M fail (no text obtained), the loop ends with
\* no exception leaving it, N-M records in resultados and M names in errores,
\* each list in upload order, each record that of its own document and under
\* its name; the same holds of the documents handled so far at every turn of
\* the loop.
C6_LoteParticionado ==
    /\ pc # "roto"
    /\ pc \in {"for", "open", "pages", "extract", "if", "done"}
    /\ pc \in {"open", "pages", "extract", "if"} => idx \in 1..Len(uploaded_files)
    /\ pc \in {"for", "done"} =>
          LET malos == SelectSeq(Vistos, SinTexto)
              buenos == SelectSeq(Vistos, LAMBDA d : ~SinTexto(d))
          IN /\ Len(resultados) = idx - Len(malos)
             /\ Len(errores) = Len(malos)
             /\ errores = NombresDe(malos)
             /\ resultados =
                    [k \in 1..Len(buenos) |->
                        ConArchivo(extraer_datos_pdf(TextoDe(buenos[k])).ret, buenos[k].name)]

\* a finished batch of three: the second document has a page without text,
\* the others are in resultados under their names
C6_Witness ==
    /\ pc = "done"
    /\ Len(uploaded_files) = 3
    /\ uploaded_files[2].abre /\ SinTexto(uploaded_files[2])
    /\ errores = <<uploaded_files[2].name>>
    /\ Len(resultados) = 2
    /\ resultados[1].Archivo = "b.pdf" /\ resultados[1].V_Bruta = 12
    /\ resultados[2].Archivo = "a.pdf" /\ resultados[2].Diferencia = 3

\* extraer_datos_pdf raised and caught an error on the document's text
ExtraccionFalla(d) == ~SinTexto(d) /\ Fallan(TextoDe(d)) # {}

\* C7: a document whose field extraction raised an error is a failure: its
\* name is in errores and it has no row in resultados.
C7_ExtraccionFallidaEnErrores ==
    pc = "done" =>
        LET malos == SelectSeq(uploaded_files, LAMBDA d : SinTexto(d) \/ ExtraccionFalla(d))
        IN /\ errores = NombresDe(malos)
           /\ Len(resultados) = Len(uploaded_files) - Len(malos)

\* C10: at most one PDF handle is open, that of the current document and only
\* while its pages are read; it is closed when a page or the extraction
\* fails, before the next document is opened and when the loop has finished.
C10_UnSoloHandle ==
    /\ Cardinality(abiertos) <= 1
    /\ abiertos \subseteq {idx}
    /\ pc # "pages" => abiertos = {}
    /\ \A k \in 1..Len(aperturas) : aperturas[k] # idx => aperturas[k] \notin abiertos

\* the first document failed on a page after its handle was opened; the
\* second document's handle is the only one open
C10_Witness ==
    /\ idx = 2
    /\ aperturas = <<1, 2>>
    /\ abiertos = {2}
    /\ errores = <<uploaded_files[1].name>>

====
